---------------------------- MODULE Spec2Model ----------------------------
(***************************************************************************)
(* The LogSeq MCP tool server: the create_page and list_pages tools of the *)
(* server module (src/unnamed/part_001) over the LogSeq API client         *)
(* (src/unnamed/part_000).                                                 *)
(*                                                                         *)
(* JavaScript strings that the program compares or orders (the display     *)
(* lines of list_pages) are sequences of UTF-16 code units.  Strings the   *)
(* program only copies (messages, method names) are TLA+ strings.  Titles  *)
(* and contents are a text with its length, the one thing the schema reads.*)
(***************************************************************************)
EXTENDS Integers, Sequences, FiniteSets

(***************************************************************************)
(* Bounds of the model.                                                    *)
(***************************************************************************)
\* longest upstream sequence of pages
MaxPages == 2
\* tool invocations served in one run of the process
MaxCalls == 2

(***************************************************************************)
(* Program constants.                                                      *)
(***************************************************************************)
TitleMin == 1
TitleMax == 1000
ContentMin == 1
ContentMax == 1000000

InsertBlockMethod == "logseq.Editor.insertBlock"
GetAllPagesMethod == "logseq.Editor.getAllPages"

TitleEmptyMsg == "Title cannot be empty"
TitleTooLongMsg == "Title is too long"
ContentEmptyMsg == "Content cannot be empty"
ContentTooLongMsg == "Content is too long"
\* the schema's type issue for an include_journals that is no boolean
IncludeJournalsTypeMsg == "include_journals: expected boolean"
InvalidResponseMsg == "Invalid response from LogSeq API: Expected an array of pages"
CreateFailedPrefix == "Failed to create page: "
ListFailedPrefix == "Failed to list pages: "
CreatedPrefix == "Successfully created page '"
ListHeader == "LogSeq Pages:"

(***************************************************************************)
(* UTF-16 code units of the literals the display line is built from.       *)
(***************************************************************************)
Space == <<32>>
DashSpace == <<45, 32>>
CommaSpace == <<44, 32>>
ColonSpace == <<58, 32>>
\* '<unknown>'
UnknownName == <<60, 117, 110, 107, 110, 111, 119, 110, 62>>
\* U+1F4C5 (calendar)
JournalMark == <<55357, 56517>>
\* U+1F3F7 U+FE0F (label)
TagMark == <<55356, 57335, 65039>>
\* U+1F4DD (memo)
PropMark == <<55357, 56541>>

(***************************************************************************)
(* Array.prototype.join on strings.                                        *)
(***************************************************************************)
RECURSIVE Join(_, _)
Join(parts, sep) ==
    IF parts = <<>> THEN <<>>
    ELSE IF Len(parts) = 1 THEN parts[1]
    ELSE parts[1] \o sep \o Join(Tail(parts), sep)

(***************************************************************************)
(* The default comparison of Array.prototype.sort: strings by code unit,   *)
(* a proper prefix before the longer string.                               *)
(***************************************************************************)
RECURSIVE StrLess(_, _)
StrLess(a, b) ==
    IF b = <<>> THEN FALSE
    ELSE IF a = <<>> THEN TRUE
    ELSE IF a[1] # b[1] THEN a[1] < b[1]
    ELSE StrLess(Tail(a), Tail(b))

RECURSIVE InsertSorted(_, _)
InsertSorted(x, s) ==
    IF s = <<>> THEN <<x>>
    ELSE IF StrLess(x, s[1]) THEN <<x>> \o s
    ELSE <<s[1]>> \o InsertSorted(x, Tail(s))

RECURSIVE SortedCopy(_)
SortedCopy(s) ==
    IF s = <<>> THEN <<>> ELSE InsertSorted(s[1], SortedCopy(Tail(s)))

\* variant: the lines stay in upstream order
SortLinesSkipped(lines) == lines

\* pagesInfo.sort()
SortLines(lines) == SortedCopy(lines)

(***************************************************************************)
(* JSON values the upstream API returns as one element of the page list.   *)
(* kind is the JavaScript type of the element; the other fields are read   *)
(* only of an object.  An absent or empty string is <<>> (both are falsy). *)
(* journal is the "journal?" field: "absent", "true" or "false".           *)
(* tags / properties that are not an array / an object have tagsIsArray /  *)
(* propsIsObject FALSE.  properties is the sequence of its entries.        *)
(***************************************************************************)
Elem(kind, journal, originalName, name, tagsIsArray, tags, propsIsObject, props) ==
    [kind |-> kind, journal |-> journal, originalName |-> originalName,
     name |-> name, tagsIsArray |-> tagsIsArray, tags |-> tags,
     propsIsObject |-> propsIsObject, props |-> props]

\* null and 42: not page objects
NullElem == Elem("null", "absent", <<>>, <<>>, FALSE, <<>>, FALSE, <<>>)
NumberElem == Elem("number", "absent", <<>>, <<>>, FALSE, <<>>, FALSE, <<>>)
\* {"name": "a", "tags": ["t"]}
TaggedPage == Elem("object", "absent", <<>>, <<97>>, TRUE, <<<<116>>>>, FALSE, <<>>)
\* {"name": "a\t", "journal?": false}
TabPage == Elem("object", "false", <<>>, <<97, 9>>, FALSE, <<>>, FALSE, <<>>)
\* {"originalName": "B", "name": "b", "journal?": true, "tags": ["t", "u"],
\*  "properties": {"k": "v"}}
JournalPage ==
    Elem("object", "true", <<66>>, <<98>>, TRUE, <<<<116>>, <<117>>>>,
         TRUE, <<<<<<107>>, <<118>>>>>>)
\* {"tags": "t", "properties": {"k": "v"}}: no name, tags not an array
NamelessPage ==
    Elem("object", "absent", <<>>, <<>>, FALSE, <<>>, TRUE, <<<<<<107>>, <<118>>>>>>)

Elements ==
    {NullElem, NumberElem, TaggedPage, TabPage, JournalPage, NamelessPage}

\* JSON.stringify of an element that is no page object
ElemJson(page) == IF page.kind = "null" THEN "null" ELSE "42"

\* variant: only `!page` is tested, not the type
IsPageObjectNotNull(page) == page.kind # "null"

\* !page || typeof page !== 'object'
IsPageObject(page) == page.kind = "object"

\* page['journal?'] || false
IsJournal(page) == page.journal = "true"

\* page.originalName || page.name || '<unknown>'
DisplayName(page) ==
    IF page.originalName # <<>> THEN page.originalName
    ELSE IF page.name # <<>> THEN page.name
    ELSE UnknownName

\* Array.isArray(page.tags) ? page.tags : []
PageTags(page) == IF page.tagsIsArray THEN page.tags ELSE <<>>

\* page.properties && typeof page.properties === 'object' ? page.properties : {}
PageProperties(page) == IF page.propsIsObject THEN page.props ELSE <<>>

\* Object.entries(properties).map(([k, v]) => `${k}: ${v}`)
PropStrings(props) == [i \in 1..Len(props) |-> props[i][1] \o ColonSpace \o props[i][2]]

\* the display line of one shown page: infoParts.join(" ")
InfoLine(page) ==
    LET isJournal == IsJournal(page)
        tags == PageTags(page)
        properties == PageProperties(page)
        p1 == <<DashSpace \o DisplayName(page)>>
        p2 == IF isJournal THEN Append(p1, JournalMark) ELSE p1
        p3 == IF Len(tags) > 0
              THEN Append(p2, TagMark \o Space \o Join(tags, CommaSpace))
              ELSE p2
        p4 == IF Len(properties) > 0
              THEN Append(p3, PropMark \o Space \o Join(PropStrings(properties), CommaSpace))
              ELSE p3
    IN  Join(p4, Space)


(***************************************************************************)
(* Tool arguments.  A title or content is a text with its length.          *)
(***************************************************************************)
Str(text, len) == [text |-> text, len |-> len]
NoStr == Str("", 0)

Titles == {Str("", 0), Str("T", 1), Str("T1000", TitleMax), Str("T1001", TitleMax + 1)}
Contents ==
    {Str("", 0), Str("C", 1), Str("C1000000", ContentMax), Str("C1000001", ContentMax + 1)}

\* the include_journals argument as sent: absent, a boolean, or another type
IncludeInputs == {"absent", "true", "false", "yes"}

\* axios failures: no connection, the 6000 ms timeout, a status outside 2xx
UpstreamErrors ==
    {"Network Error", "timeout of 6000ms exceeded", "Request failed with status code 500"}

(***************************************************************************)
(* The create_page schema.  IssueOf... is the message of the first         *)
(* violated constraint, "" when there is none.                             *)
(***************************************************************************)
\* variant: the upper bound of the title is not checked
TitleIssueNoMax(title) == IF title.len < TitleMin THEN TitleEmptyMsg ELSE ""

TitleIssue(title) ==
    IF title.len < TitleMin THEN TitleEmptyMsg
    ELSE IF title.len > TitleMax THEN TitleTooLongMsg
    ELSE ""

ContentIssue(content) ==
    IF content.len < ContentMin THEN ContentEmptyMsg
    ELSE IF content.len > ContentMax THEN ContentTooLongMsg
    ELSE ""

CreatePageIssue(title, content) ==
    IF TitleIssue(title) # "" THEN TitleIssue(title) ELSE ContentIssue(content)

\* the list_pages schema: z.boolean().optional().default(false)
ListPagesIssue(raw) == IF raw \in {"absent", "true", "false"} THEN "" ELSE IncludeJournalsTypeMsg

ParsedInclude(raw) == raw = "true"

(***************************************************************************)
(* Requests, upstream responses, tool results, log lines, envelopes.       *)
(***************************************************************************)
Request(tool, title, content, raw) ==
    [tool |-> tool, title |-> title, content |-> content, raw |-> raw]
NoRequest == Request("none", NoStr, NoStr, "absent")

\* kind: "none" (no response yet), "error" (the call failed), or the type of
\* the response body: "array", "null", "object", "number"
Response(kind, items, message) == [kind |-> kind, items |-> items, message |-> message]
NoResponse == Response("none", <<>>, "")

\* a tool result {isError, content: [{type: "text", text}]}; the text is
\* prefix ++ message ++ title for the one-line texts, and for a listing the
\* header, the lines and the statistics block
Result(isError, kind, prefix, message, title, lines, totalPages, journalPages, hidden) ==
    [isError |-> isError, kind |-> kind, prefix |-> prefix, message |-> message,
     title |-> title, lines |-> lines, totalPages |-> totalPages,
     journalPages |-> journalPages, hidden |-> hidden]
NoResult == Result(FALSE, "none", "", "", NoStr, <<>>, 0, 0, FALSE)

\* the framework's answer to arguments the schema rejects
Rejected(issue) == Result(TRUE, "rejected", "", issue, NoStr, <<>>, 0, 0, FALSE)

LogLine(level, msg, arg) == [level |-> level, msg |-> msg, arg |-> arg]

\* {method, args: [title, content, {isPageBlock: true}]} / {method}
Envelope(method, hasArgs, title, content, isPageBlock) ==
    [method |-> method, hasArgs |-> hasArgs, title |-> title, content |-> content,
     isPageBlock |-> isPageBlock]

\* variant: title and content change places in args
CreatePagePayloadSwapped(title, content) ==
    Envelope(InsertBlockMethod, TRUE, content, title, TRUE)

\* LogSeq.createPage: payload
CreatePagePayload(title, content) == Envelope(InsertBlockMethod, TRUE, title, content, TRUE)

\* LogSeq.listPages: payload
ListPagesPayload == Envelope(GetAllPagesMethod, FALSE, NoStr, NoStr, FALSE)

(***************************************************************************)
(* The state of the process.                                               *)
(***************************************************************************)
VARIABLES
    apiKey,     \* process.env.LOGSEQ_API_TOKEN ("" when not set)
    pc,         \* "boot", "idle", "awaitCreate", "awaitList", "halted"
    req,        \* the invocation being served, or served last
    resp,       \* what the upstream call of that invocation came back with
    result,     \* the tool result returned for it (NoResult while pending)
    log,        \* the lines appended to logs/logseq-client.log
    calls,      \* the envelopes posted to the upstream API, in order
    mark,       \* the lengths of calls and log when that invocation was dispatched
    served,     \* invocations dispatched so far
    memo        \* the reference runs seen: (request, response, result)

vars == <<apiKey, pc, req, resp, result, log, calls, mark, served, memo>>

(***************************************************************************)
(* list_pages: the loop over the upstream pages.                           *)
(***************************************************************************)
\* variant: totalPages is kept across invocations instead of starting at 0
HandlerLocalsCarried ==
    [pagesInfo |-> <<>>, totalPages |-> served - 1, journalPages |-> 0, errors |-> <<>>]

\* const pagesInfo = []; let totalPages = 0; let journalPages = 0;
HandlerLocals == [pagesInfo |-> <<>>, totalPages |-> 0, journalPages |-> 0, errors |-> <<>>]

\* variant: the response is iterated without the Array.isArray test
IsArrayUnchecked(body) == TRUE

\* Array.isArray(result)
IsArray(body) == body.kind = "array"

\* an element that is no page object: logged, then `continue`
SkipInvalid(acc, page) ==
    [acc EXCEPT !.errors =
        Append(@, LogLine("error", "Invalid page object in response: ", ElemJson(page)))]

\* variant: a hidden journal page is not counted
SkipJournalUncounted(acc) == acc

\* a journal page while journals are excluded: counted, then `continue`
SkipJournal(acc) == [acc EXCEPT !.journalPages = @ + 1]

\* a shown page: its line is pushed and counted
ShowPage(acc, page) ==
    [acc EXCEPT !.pagesInfo = Append(@, InfoLine(page)), !.totalPages = @ + 1]

\* one iteration of `for (const page of result)`
LoopBody(acc, page, include_journals) ==
    IF ~IsPageObject(page) THEN SkipInvalid(acc, page)
    ELSE IF IsJournal(page) /\ ~include_journals THEN SkipJournal(acc)
    ELSE ShowPage(acc, page)

RECURSIVE ForEachPage(_, _, _)
ForEachPage(acc, items, include_journals) ==
    IF items = <<>> THEN acc
    ELSE ForEachPage(LoopBody(acc, Head(items), include_journals), Tail(items),
                     include_journals)

\* the success result: header, sorted lines, statistics block
Listing(acc, include_journals) ==
    Result(FALSE, "listing", ListHeader, "", NoStr, SortLines(acc.pagesInfo),
           acc.totalPages, acc.journalPages, ~include_journals)

\* variant: the catch block returns the error without logging it
ListPagesFailedUnlogged(message) == <<>>

\* the catch block of the list_pages handler
ListPagesFailed(message) ==
    Result(TRUE, "listFailed", ListFailedPrefix, message, NoStr, <<>>, 0, 0, FALSE)
ListPagesFailedLog(message) == <<LogLine("error", ListFailedPrefix, message)>>

\* the catch block of LogSeq.listPages, which rethrows
ListPagesClientErrorLog(message) == <<LogLine("error", "Error listing pages: ", message)>>

\* the handler from the return of logseqClient.listPages() on
ListPagesReturn(body, include_journals) ==
    IF ~IsArray(body)
    THEN [result |-> ListPagesFailed(InvalidResponseMsg),
          log |-> <<LogLine("debug", "Response status: ", ""),
                    LogLine("debug", "Raw API response: ", "")>>
                  \o ListPagesFailedLog(InvalidResponseMsg)]
    ELSE LET acc == ForEachPage(HandlerLocals, body.items, include_journals)
         IN  [result |-> Listing(acc, include_journals),
              log |-> <<LogLine("debug", "Response status: ", ""),
                        LogLine("debug", "Raw API response: ", "")>>
                      \o acc.errors
                      \o <<LogLine("info", "Found pages", "")>>]

\* the handler when logseqClient.listPages() throws
ListPagesThrows(message) ==
    [result |-> ListPagesFailed(message),
     log |-> ListPagesClientErrorLog(message) \o ListPagesFailedLog(message)]

(***************************************************************************)
(* create_page.                                                            *)
(***************************************************************************)
CreatePageSucceeded(title) ==
    Result(FALSE, "created", CreatedPrefix, "", title, <<>>, 0, 0, FALSE)

\* variant: the text does not carry error.message
CreatePageFailedNoMessage(message) ==
    Result(TRUE, "createFailed", CreateFailedPrefix, "", NoStr, <<>>, 0, 0, FALSE)

\* the catch block of the create_page handler
CreatePageFailed(message) ==
    Result(TRUE, "createFailed", CreateFailedPrefix, message, NoStr, <<>>, 0, 0, FALSE)
CreatePageFailedLog(message) == <<LogLine("error", CreateFailedPrefix, message)>>

\* the catch block of LogSeq.createPage, which rethrows
CreatePageClientErrorLog(message) == <<LogLine("error", "Error creating page: ", message)>>

CreatePageReturn(title) ==
    [result |-> CreatePageSucceeded(title),
     log |-> <<LogLine("debug", "Response status: ", ""),
               LogLine("info", "Successfully created page", ""),
               LogLine("debug", "API response: ", "")>>]

CreatePageThrows(message) ==
    [result |-> CreatePageFailed(message),
     log |-> CreatePageClientErrorLog(message) \o CreatePageFailedLog(message)]

\* the server goes on to the next request once a handler has returned
PcAfterResult(res) == "idle"

(***************************************************************************)
(* Reference runs: invocations whose result is kept to compare a later     *)
(* invocation with the same arguments and the same upstream response to.   *)
(***************************************************************************)
Run(rq, rs, res, n) == [req |-> rq, resp |-> rs, result |-> res, n |-> n]

ReferenceRuns ==
    {<<Request("list_pages", NoStr, NoStr, "false"),
       Response("array", <<TaggedPage, JournalPage>>, "")>>,
     <<Request("list_pages", NoStr, NoStr, "true"),
       Response("array", <<JournalPage, NullElem>>, "")>>,
     <<Request("list_pages", NoStr, NoStr, "absent"), Response("null", <<>>, "")>>,
     <<Request("create_page", Str("T", 1), Str("C", 1), "absent"),
       Response("error", <<>>, "Network Error")>>,
     <<Request("create_page", Str("T", 1), Str("C", 1), "absent"),
       Response("object", <<>>, "")>>}

Remember(rq, rs, res, n) ==
    IF <<rq, rs>> \in ReferenceRuns THEN memo \cup {Run(rq, rs, res, n)} ELSE memo

(***************************************************************************)
(* What the upstream API can answer.                                       *)
(***************************************************************************)
PageLists == UNION {[1..k -> Elements] : k \in 0..MaxPages}

ListPagesResponses ==
    {Response("array", items, "") : items \in PageLists}
    \cup {Response(kind, <<>>, "") : kind \in {"null", "object", "number"}}
    \cup {Response("error", <<>>, message) : message \in UpstreamErrors}

CreatePageResponses ==
    {Response(kind, <<>>, "") : kind \in {"null", "object"}}
    \cup {Response("error", <<>>, message) : message \in UpstreamErrors}

(***************************************************************************)
(* Initial state: the module is about to load.                             *)
(***************************************************************************)
Init ==
    /\ apiKey \in {"", "secret"}
    /\ pc = "boot"
    /\ req = NoRequest
    /\ resp = NoResponse
    /\ result = NoResult
    /\ log = <<>>
    /\ calls = <<>>
    /\ mark = [calls |-> 0, log |-> 0]
    /\ served = 0
    /\ memo = {}

(***************************************************************************)
(* Module load: the token is validated, then the client is constructed and *)
(* the tools are registered.  Without a token the module throws.           *)
(***************************************************************************)
Startup ==
    /\ pc = "boot"
    /\ IF apiKey = ""
       THEN /\ pc' = "halted"
            /\ log' = log
       ELSE /\ pc' = "idle"
            /\ log' = Append(log, LogLine("debug", "LogSeq client initialized", ""))
    /\ UNCHANGED <<apiKey, req, resp, result, calls, mark, served, memo>>

(***************************************************************************)
(* create_page is invoked: the schema is checked; the handler runs up to   *)
(* the await of axios.post inside LogSeq.createPage.                       *)
(***************************************************************************)
CallCreatePage ==
    /\ pc = "idle"
    /\ served < MaxCalls
    /\ \E title \in Titles, content \in Contents :
        LET rq == Request("create_page", title, content, "absent")
            issue == CreatePageIssue(title, content)
        IN  /\ req' = rq
            /\ resp' = NoResponse
            /\ served' = served + 1
            /\ mark' = [calls |-> Len(calls), log |-> Len(log)]
            /\ IF issue # ""
               THEN /\ result' = Rejected(issue)
                    /\ pc' = PcAfterResult(Rejected(issue))
                    /\ memo' = Remember(rq, NoResponse, Rejected(issue), served + 1)
                    /\ UNCHANGED <<log, calls>>
               ELSE /\ result' = NoResult
                    /\ pc' = "awaitCreate"
                    /\ log' = log \o <<LogLine("info", "Creating page with title: ", title.text),
                                       LogLine("debug", "Base URL: ", ""),
                                       LogLine("info", "Creating page '", title.text),
                                       LogLine("debug", "Request payload: ", "")>>
                    /\ calls' = Append(calls, CreatePagePayload(title, content))
                    /\ memo' = memo
    /\ UNCHANGED apiKey

(***************************************************************************)
(* axios.post of createPage settles; the handler runs to its return.       *)
(***************************************************************************)
CreatePageResponds ==
    /\ pc = "awaitCreate"
    /\ \E rs \in CreatePageResponses :
        LET out == IF rs.kind = "error" THEN CreatePageThrows(rs.message)
                   ELSE CreatePageReturn(req.title)
        IN  /\ resp' = rs
            /\ result' = out.result
            /\ log' = log \o out.log
            /\ pc' = PcAfterResult(out.result)
            /\ memo' = Remember(req, rs, out.result, served)
    /\ UNCHANGED <<apiKey, req, calls, mark, served>>

(***************************************************************************)
(* list_pages is invoked: the schema is checked; the handler runs up to    *)
(* the await of axios.post inside LogSeq.listPages.                        *)
(***************************************************************************)
CallListPages ==
    /\ pc = "idle"
    /\ served < MaxCalls
    /\ \E raw \in IncludeInputs :
        LET rq == Request("list_pages", NoStr, NoStr, raw)
            issue == ListPagesIssue(raw)
        IN  /\ req' = rq
            /\ resp' = NoResponse
            /\ served' = served + 1
            /\ mark' = [calls |-> Len(calls), log |-> Len(log)]
            /\ IF issue # ""
               THEN /\ result' = Rejected(issue)
                    /\ pc' = PcAfterResult(Rejected(issue))
                    /\ memo' = Remember(rq, NoResponse, Rejected(issue), served + 1)
                    /\ UNCHANGED <<log, calls>>
               ELSE /\ result' = NoResult
                    /\ pc' = "awaitList"
                    /\ log' = log \o <<LogLine("info", "Listing pages", ""),
                                       LogLine("debug", "Base URL: ", ""),
                                       LogLine("info", "Listing all pages", ""),
                                       LogLine("debug", "Request payload: ", "")>>
                    /\ calls' = Append(calls, ListPagesPayload)
                    /\ memo' = memo
    /\ UNCHANGED apiKey

(***************************************************************************)
(* axios.post of listPages settles; the handler runs to its return.        *)
(***************************************************************************)
ListPagesResponds ==
    /\ pc = "awaitList"
    /\ \E rs \in ListPagesResponses :
        LET out == IF rs.kind = "error" THEN ListPagesThrows(rs.message)
                   ELSE ListPagesReturn(rs, ParsedInclude(req.raw))
        IN  /\ resp' = rs
            /\ result' = out.result
            /\ log' = log \o out.log
            /\ pc' = PcAfterResult(out.result)
            /\ memo' = Remember(req, rs, out.result, served)
    /\ UNCHANGED <<apiKey, req, calls, mark, served>>

Next ==
    \/ Startup
    \/ CallCreatePage
    \/ CreatePageResponds
    \/ CallListPages
    \/ ListPagesResponds

Spec == Init /\ [][Next]_vars

(***************************************************************************)
(* Vocabulary of the properties, stated on the observable state: the       *)
(* request, the upstream response, the result, the log and the calls.      *)
(***************************************************************************)
CreateDispatched == req.tool = "create_page"
ListDispatched == req.tool = "list_pages"

TitleOutOfBounds == req.title.len = 0 \/ req.title.len > 1000
ContentOutOfBounds == req.content.len = 0 \/ req.content.len > 1000000

\* the upstream call of the invocation has settled and the handler returned
Answered == resp.kind # "none" /\ result.kind # "none"

\* the lines logged, and the envelopes posted, since the invocation began
NewLog == SubSeq(log, mark.log + 1, Len(log))
NewCalls == SubSeq(calls, mark.calls + 1, Len(calls))

ErrorLogged(prefix, detail) ==
    \E i \in DOMAIN NewLog :
        NewLog[i].level = "error" /\ NewLog[i].msg = prefix /\ NewLog[i].arg = detail

IncludeJournals == req.raw = "true"

\* positions of the upstream sequence, by what the element is
RecordsAt == {i \in DOMAIN resp.items : resp.items[i].kind = "object"}
MalformedAt == DOMAIN resp.items \ RecordsAt
JournalsAt == {i \in RecordsAt : resp.items[i].journal = "true"}
ShownAt == IF IncludeJournals THEN RecordsAt ELSE RecordsAt \ JournalsAt

Occurrences(seq, x) == Cardinality({i \in DOMAIN seq : seq[i] = x})

\* lexicographic order by code unit, from the first position that differs
LexLeq(a, b) ==
    LET n == IF Len(a) < Len(b) THEN Len(a) ELSE Len(b)
        diff == {i \in 1..n : a[i] # b[i]}
    IN  IF diff = {} THEN Len(a) <= Len(b)
        ELSE LET first == CHOOSE i \in diff : \A j \in diff : i <= j
             IN  a[first] < b[first]

ListingReturned == ListDispatched /\ Answered /\ resp.kind = "array"

(***************************************************************************)
(* C1: a create_page invocation whose title has length 0 or more than 1000,*)
(* or whose content has length 0 or more than 1,000,000, gets an isError   *)
(* result and posts no envelope to the upstream API.                       *)
(***************************************************************************)
C1_OutOfBoundsRejected ==
    (CreateDispatched /\ (TitleOutOfBounds \/ ContentOutOfBounds))
        => (result.isError /\ NewCalls = <<>>)

C1_Witness ==
    /\ CreateDispatched
    /\ req.title.len > 1000
    /\ ~ContentOutOfBounds
    /\ result.isError
    /\ Len(calls) = mark.calls

(***************************************************************************)
(* C2: a create_page invocation with title and content within bounds posts *)
(* exactly one envelope, before and after the upstream call settles        *)
(* (success or failure, no retry): method logseq.Editor.insertBlock, args  *)
(* [title, content, {isPageBlock: true}] with title and content unchanged. *)
(***************************************************************************)
C2_ExactlyOneCall ==
    (CreateDispatched /\ ~TitleOutOfBounds /\ ~ContentOutOfBounds)
        => NewCalls = <<[method |-> "logseq.Editor.insertBlock", hasArgs |-> TRUE,
                         title |-> req.title, content |-> req.content,
                         isPageBlock |-> TRUE]>>

C2_Witness ==
    /\ CreateDispatched
    /\ Answered
    /\ resp.kind = "error"
    /\ req.title.len = 1000
    /\ Len(calls) = mark.calls + 1

(***************************************************************************)
(* C3: when the upstream call of createPage fails, create_page returns a   *)
(* result with isError true whose text is "Failed to create page: "        *)
(* followed by the message of the failure.                                 *)
(***************************************************************************)
C3_FailureReturned ==
    (CreateDispatched /\ resp.kind = "error")
        => /\ result.isError
           /\ result.kind = "createFailed"
           /\ result.prefix = "Failed to create page: "
           /\ result.message = resp.message
           /\ pc # "halted"

C3_Witness ==
    /\ CreateDispatched
    /\ resp.kind = "error"
    /\ resp.message = "timeout of 6000ms exceeded"
    /\ result.isError

(***************************************************************************)
(* C4: list_pages with include_journals true lists every page record and   *)
(* reports as journal-page count the number of records whose "journal?" is *)
(* true, without the "(hidden)" label.                                     *)
(***************************************************************************)
C4_JournalsCountedWhenIncluded ==
    (ListingReturned /\ IncludeJournals)
        => /\ ~result.isError
           /\ \A i \in RecordsAt : Occurrences(result.lines, InfoLine(resp.items[i])) >= 1
           /\ result.journalPages = Cardinality(JournalsAt)
           /\ ~result.hidden

(***************************************************************************)
(* C5: list_pages with include_journals false lists no record whose        *)
(* "journal?" is true, reports their number as the journal-page count with *)
(* the "(hidden)" label, and reports as shown count the number of listed   *)
(* lines, which is the number of non-journal records.                      *)
(***************************************************************************)
C5_JournalsHidden ==
    (ListingReturned /\ ~IncludeJournals)
        => /\ \A i \in JournalsAt : Occurrences(result.lines, InfoLine(resp.items[i])) = 0
           /\ result.journalPages = Cardinality(JournalsAt)
           /\ result.hidden
           /\ result.totalPages = Len(result.lines)
           /\ Len(result.lines) = Cardinality(RecordsAt \ JournalsAt)

C5_Witness ==
    /\ ListingReturned
    /\ ~IncludeJournals
    /\ resp.items = <<JournalPage, TaggedPage>>
    /\ result.journalPages = 1
    /\ result.totalPages = 1
    /\ result.hidden

(***************************************************************************)
(* C6: elements of the upstream sequence that are no records are each      *)
(* logged and skipped; the result is a success whose listing holds exactly *)
(* the shown valid pages and whose shown count does not count the skipped. *)
(***************************************************************************)
InvalidObjectLine(l) == l.level = "error" /\ l.msg = "Invalid page object in response: "
NotARecord(e) == e.kind # "object"

C7_NonSequenceRejected ==
    (ListDispatched /\ resp.kind \in {"null", "object", "number"})
        => /\ result.isError
           /\ result.kind = "listFailed"
           /\ result.prefix = "Failed to list pages: "
           /\ result.message = "Invalid response from LogSeq API: Expected an array of pages"
           /\ result.lines = <<>>
           /\ SelectSeq(NewLog, InvalidObjectLine) = <<>>
           /\ pc = "idle"

C7_Witness ==
    /\ ListDispatched
    /\ resp.kind = "object"
    /\ pc = "idle"
    /\ result.isError
    /\ result.lines = <<>>

ContractErrorLogged ==
    /\ (ListDispatched /\ Answered /\ resp.kind \in {"null", "object", "number"})
          => ErrorLogged("Failed to list pages: ",
                         "Invalid response from LogSeq API: Expected an array of pages")
    /\ ListingReturned
          => \A i \in MalformedAt :
                 ErrorLogged("Invalid page object in response: ", ElemJson(resp.items[i]))

CallErrorLogged ==
    (Answered /\ resp.kind = "error")
        => IF CreateDispatched
           THEN ErrorLogged("Failed to create page: ", resp.message)
           ELSE ErrorLogged("Failed to list pages: ", resp.message)

C10_AllFourKindsLogged ==
    /\ pc = "halted" => \E i \in DOMAIN log : log[i].level = "error"
    /\ result.kind = "rejected" => NewLog # <<>>
    /\ ContractErrorLogged
    /\ CallErrorLogged

(***************************************************************************)
(* C10 as amended: the errors of the two remote kinds are logged at error  *)
(* level before the result is returned; a missing token and rejected       *)
(* arguments append no log line.                                           *)
(***************************************************************************)
C10_RemoteErrorsLogged ==
    /\ ContractErrorLogged
    /\ CallErrorLogged
    /\ pc = "halted" => log = <<>>
    /\ result.kind = "rejected" => NewLog = <<>>

C10_Witness ==
    /\ ListDispatched
    /\ Answered
    /\ resp.kind = "error"
    /\ ErrorLogged("Failed to list pages: ", resp.message)

=============================================================================
